---------------------------- MODULE Spec2Model ----------------------------
(***************************************************************************)
(* Model of pier0x/poker-helper: the chip allocation engine                *)
(* (assignChipValues, solveGroup, computeQuantityCombinations,             *)
(* calculateCombinations), the settlement engine (calculateSettlement) and *)
(* the handlers of the components App and Settlement that call them.       *)
(*                                                                         *)
(* Numbers.  The program computes with JavaScript doubles.  The model      *)
(* computes with exact decimal fixed point: a money amount is an integer   *)
(* number of micro-dollars (1 dollar = 1000000), so that amounts below one *)
(* cent exist and round2 really rounds.  Chip "units" (ratios rounded to   *)
(* two decimals) are integers in hundredths.  The non-finite doubles the   *)
(* program can produce (Infinity, -Infinity, NaN) are three integers that  *)
(* no finite result reaches, with the arithmetic of doubles on them.       *)
(***************************************************************************)
EXTENDS Integers, Sequences, FiniteSets, TLC

VARIABLES
    n,              \* assignChipValues: argument n
    chips,          \* calculateCombinations: argument chips
    buyIn,          \* calculateCombinations: argument buyIn
    smallBlind,     \* argument smallBlind
    bigBlind,       \* argument bigBlind
    chipValues,     \* result of assignChipValues
    combinations,   \* result of calculateCombinations
    players,        \* calculateSettlement: argument players
    summaries,      \* calculateSettlement: const summaries
    debtors,        \* calculateSettlement: const debtors (entries mutated)
    creditors,      \* calculateSettlement: const creditors (entries mutated)
    i,              \* calculateSettlement: let i
    j,              \* calculateSettlement: let j
    transactions,   \* calculateSettlement: const transactions
    result,         \* Settlement: state result (null, or the settlement held)
    nextId,         \* Settlement.tsx: let nextId
    calculated,     \* App: state calculated
    pc              \* position of the call in progress; under SpecUI, the
                    \* component whose handlers run

vars == <<n, chips, buyIn, smallBlind, bigBlind, chipValues, combinations,
          players, summaries, debtors, creditors, i, j, transactions,
          result, nextId, calculated, pc>>

chipVars == <<n, chips, buyIn, smallBlind, bigBlind, chipValues, combinations,
              calculated>>
settleVars == <<players, summaries, debtors, creditors, i, j, transactions,
                result, nextId>>

-----------------------------------------------------------------------------
(* Number representation *)

Dollar == 1000000
Cent == 10000

\* The non-finite doubles, as integers no finite result of the model reaches.
Infinity == 2147483647
NegInfinity == -2147483647
NaN == -2147483646

IsFinite(x) == x \notin {Infinity, NegInfinity, NaN}

\* null and undefined: a result that may be absent is <<>> or <<value>>.
Null == <<>>
Undefined == <<>>
Some(x) == <<x>>

Min(S) == CHOOSE x \in S : \A y \in S : x <= y
Abs(x) == IF x < 0 THEN -x ELSE x

\* Math.round(a / b) for finite a and b > 0: nearest integer, halves towards
\* +infinity.
RoundDiv(a, b) == (a \div b) + (IF 2 * (a % b) >= b THEN 1 ELSE 0)

\* Math.floor(a / b) for finite a and b > 0.
FloorDiv(a, b) == a \div b

\* a / b of doubles when the quotient is not finite (b = 0, or a not finite);
\* b is finite and >= 0.
nonFiniteQuotient(a, b) ==
    IF a = NaN THEN NaN
    ELSE IF b = 0 THEN (IF a = 0 THEN NaN ELSE IF a > 0 THEN Infinity ELSE NegInfinity)
    ELSE a

\* Math.round(a / b) and Math.floor(a / b) of doubles, b finite and >= 0.
jsRoundDiv(a, b) ==
    IF IsFinite(a) /\ b > 0 THEN RoundDiv(a, b) ELSE nonFiniteQuotient(a, b)
jsFloorDiv(a, b) ==
    IF IsFinite(a) /\ b > 0 THEN FloorDiv(a, b) ELSE nonFiniteQuotient(a, b)

\* Math.min, Math.max: NaN if an argument is NaN.
jsMin(a, b) == IF a = NaN \/ b = NaN THEN NaN ELSE IF a <= b THEN a ELSE b
jsMax(a, b) == IF a = NaN \/ b = NaN THEN NaN ELSE IF a >= b THEN a ELSE b

\* a * b of doubles, b finite and >= 0.
jsMul(a, b) ==
    IF a = NaN THEN NaN
    ELSE IF ~IsFinite(a) THEN (IF b = 0 THEN NaN ELSE a)
    ELSE a * b

\* a + b and a - b of doubles.
jsAdd(a, b) ==
    IF a = NaN \/ b = NaN THEN NaN
    ELSE IF ~IsFinite(a) THEN (IF ~IsFinite(b) /\ a # b THEN NaN ELSE a)
    ELSE IF ~IsFinite(b) THEN b
    ELSE a + b
jsNeg(a) == IF a = NaN THEN NaN ELSE -a
jsSub(a, b) == jsAdd(a, jsNeg(b))

\* a <= b, a >= b, a > b of doubles: false when an argument is NaN.
jsLE(a, b) == a # NaN /\ b # NaN /\ a <= b
jsGE(a, b) == a # NaN /\ b # NaN /\ a >= b
jsGT(a, b) == a # NaN /\ b # NaN /\ a > b

\* round2: Math.round(n * 100) / 100 on a money amount.
round2(x) == IF IsFinite(x) THEN RoundDiv(x, Cent) * Cent ELSE x

\* round2(v / v0) for two money amounts, v0 >= 0: the ratio in hundredths.
round2Ratio(v, v0) ==
    IF v0 > 0 THEN (v \div v0) * 100 + RoundDiv(100 * (v % v0), v0)
    ELSE nonFiniteQuotient(v, v0)

RECURSIVE SumSeq(_)
SumSeq(s) == IF s = <<>> THEN 0 ELSE s[1] + SumSeq(Tail(s))

-----------------------------------------------------------------------------
(* assignChipValues *)

NICE_MULTIPLIERS == <<1, 2, 5, 10, 20, 50, 100, 200, 500, 1000>>

niceValues(sb) ==
    [k \in DOMAIN NICE_MULTIPLIERS |-> round2(NICE_MULTIPLIERS[k] * sb)]

Includes(seq, v) == \E k \in DOMAIN seq : seq[k] = v

\* findNext without the test v > prev: the first unused nice value.
findNextAnyUnused(nice, prev, values) ==
    LET hits == {k \in DOMAIN nice : ~Includes(values, nice[k])}
    IN  IF hits = {} THEN Undefined ELSE Some(nice[Min(hits)])

\* niceValues.find(v => v > prev && !values.includes(v))
findNext(nice, prev, values) ==
    LET hits == {k \in DOMAIN nice : nice[k] > prev /\ ~Includes(values, nice[k])}
    IN  IF hits = {} THEN Undefined ELSE Some(nice[Min(hits)])

\* the for loop of assignChipValues, from index idx (0-based) to num - 1
RECURSIVE assignLoop(_, _, _, _, _)
assignLoop(idx, num, nice, values, prev) ==
    IF idx >= num THEN values
    ELSE LET next == findNext(nice, prev, values)
         IN  IF next # Undefined
             THEN assignLoop(idx + 1, num, nice, Append(values, next[1]), next[1])
             ELSE LET fallback == round2(prev * 2)
                  IN  assignLoop(idx + 1, num, nice, Append(values, fallback), fallback)

assignChipValues(num, sb, bb) ==
    IF num = 0 THEN <<>>
    ELSE IF num = 1 THEN <<sb>>
    ELSE assignLoop(2, num, niceValues(sb), <<sb, bb>>, bb)

-----------------------------------------------------------------------------
(* solveGroup *)

\* Quantities and unit counts are doubles: integers, or a non-finite double
\* after a division by a chip value or unit of 0.  The count of units still to
\* be covered ("remaining") and the units of a chip are held in hundredths.

\* values.map(v => round2(v / v0)), in hundredths
unitsOf(values) == [k \in DOMAIN values |-> round2Ratio(values[k], values[1])]

\* q.reduce((s, qty, i) => s + qty * units[i], 0), in hundredths
RECURSIVE totalUnitsFrom(_, _, _)
totalUnitsFrom(q, units, k) ==
    IF k > Len(q) THEN 0
    ELSE jsAdd(jsMul(q[k], units[k]), totalUnitsFrom(q, units, k + 1))

\* The for loop of solveGroup from position pos: chips m-1 down to 2 (0-based).
\* Null when the loop returns null, else the quantities and what remains.
RECURSIVE groupLoop(_, _, _, _, _)
groupLoop(pos, m, units, q, remaining) ==
    IF pos >= m - 2 THEN Some([q |-> q, remaining |-> remaining])
    ELSE LET chipIdx == m - 1 - pos
             unit == units[chipIdx + 1]
             idealQty == jsRoundDiv(remaining, (m - 1 - pos) * unit)
             maxQty == jsFloorDiv(jsSub(remaining, 100), unit)
             qty == jsMax(1, jsMin(idealQty, maxQty))
             left == jsSub(remaining, jsMul(qty, unit))
         IN  IF jsLE(left, 0) THEN Null
             ELSE groupLoop(pos + 1, m, units, [q EXCEPT ![chipIdx + 1] = qty], left)

\* solveGroup for m >= 2 once q0Target < N: lines 78-108
solveLargerGroup(m, units, N, q0Target) ==
    LET looped == groupLoop(0, m, units, [k \in 1..m |-> 0], (N - q0Target) * 100)
    IN  IF looped = Null THEN Null
        ELSE LET q1 == jsFloorDiv(looped[1].remaining, units[2])
                 left == jsSub(looped[1].remaining, jsMul(q1, units[2]))
                 q0 == jsAdd(q0Target, jsRoundDiv(left, 100))
                 q == [looped[1].q EXCEPT ![1] = q0, ![2] = q1]
                 totalUnits == totalUnitsFrom(q, units, 1)
                 diff == jsSub(totalUnits, N * 100)
             IN  IF jsLE(q0, 0) \/ jsLE(q1, 0) THEN Null
                 ELSE IF jsGT(IF IsFinite(diff) THEN Abs(diff) ELSE diff, 1) THEN Null
                 ELSE Some(q)

\* solveGroup(m, values, target, q0Target): Null, or Some(quantities)
solveGroup(m, values, target, q0Target) ==
    IF m = 0 THEN Some(<<>>)
    ELSE IF m = 1
    THEN LET qty == jsRoundDiv(target, values[1])
         IN  IF jsGT(qty, 0) THEN Some(<<qty>>) ELSE Null
    ELSE LET N == jsRoundDiv(target, values[1])
         IN  IF jsGE(q0Target, N) THEN Null
             ELSE solveLargerGroup(m, unitsOf(values), N, q0Target)

-----------------------------------------------------------------------------
(* computeQuantityCombinations, calculateCombinations *)

\* Math.round(N * pct / 100) of a double N
roundShare(N, pct) == IF IsFinite(N) THEN RoundDiv(N * pct, 100) ELSE N

\* [Math.max(a, Math.round(N * 0.x)), ...]: the three q0 targets of a group
g1TargetsOf(N1) ==
    <<jsMax(3, roundShare(N1, 15)), jsMax(4, roundShare(N1, 20)), jsMax(5, roundShare(N1, 25))>>
g2TargetsOf(N2) ==
    <<jsMax(1, roundShare(N2, 10)), jsMax(2, roundShare(N2, 20)), jsMax(3, roundShare(N2, 30))>>

\* computeQuantityCombinations(n, values, buyIn); buyIn / 2 is exact, the buy-ins
\* drawn being even numbers of micro-dollars
computeQuantityCombinations(num, values, amount) ==
    LET half == amount \div 2
        g1Size == (num + 1) \div 2
        g2Size == num - g1Size
        g1Values == SubSeq(values, 1, g1Size)
        g2Values == SubSeq(values, g1Size + 1, num)
        N1 == jsRoundDiv(half, g1Values[1])
        g1Targets == g1TargetsOf(N1)
        v2_0 == IF Len(g2Values) > 0 THEN g2Values[1] ELSE Dollar
        N2 == jsRoundDiv(half, v2_0)
        g2Targets == g2TargetsOf(N2)
        g1Qtys == solveGroup(g1Size, g1Values, half, g1Targets[2])
        g2Qtys == IF g2Size > 0 THEN solveGroup(g2Size, g2Values, half, g2Targets[2])
                  ELSE Some(<<>>)
    IN  IF g1Qtys = Null \/ g2Qtys = Null THEN <<>>
        ELSE <<[quantities |-> g1Qtys[1] \o g2Qtys[1], name |-> "Recommended"]>>

\* insert x into the ascending sequence s after every entry <= x
RECURSIVE InsertAsc(_, _)
InsertAsc(s, x) ==
    IF s = <<>> THEN <<x>>
    ELSE IF s[1] <= x THEN <<s[1]>> \o InsertAsc(Tail(s), x)
    ELSE <<x>> \o s

\* [...chips].sort((a, b) => a - b)
RECURSIVE SortAsc(_)
SortAsc(s) ==
    IF s = <<>> THEN <<>>
    ELSE InsertAsc(SortAsc(SubSeq(s, 1, Len(s) - 1)), s[Len(s)])

\* round2(quantities[i] * values[i])
totalValueOf(quantity, value) == round2(jsMul(quantity, value))

\* allocations.reduce((sum, a) => sum + a.totalValue, 0)
RECURSIVE sumTotalValues(_)
sumTotalValues(allocs) ==
    IF allocs = <<>> THEN 0
    ELSE jsAdd(allocs[1].totalValue, sumTotalValues(Tail(allocs)))

\* one Combination: the callback of combos.map
toCombination(combo, idx, sorted, values, amount) ==
    LET allocations ==
            [k \in DOMAIN sorted |->
                [denomination |-> sorted[k],
                 quantity |-> combo.quantities[k],
                 valuePerChip |-> values[k],
                 totalValue |-> totalValueOf(combo.quantities[k], values[k])]]
    IN  [id |-> <<"combo-", idx + 1>>,
         name |-> combo.name,
         allocations |-> allocations,
         targetTotal |-> amount,
         actualTotal |-> round2(sumTotalValues(allocations))]

calculateCombinations(chipList, amount, sb, bb) ==
    IF Len(chipList) = 0 \/ amount <= 0 \/ sb <= 0 \/ bb <= 0 THEN <<>>
    ELSE LET sorted == SortAsc(chipList)
             num == Len(sorted)
             values == assignChipValues(num, sb, bb)
             combos == computeQuantityCombinations(num, values, amount)
         IN  [idx \in DOMAIN combos |->
                 toCombination(combos[idx], idx - 1, sorted, values, amount)]

-----------------------------------------------------------------------------
(* Specification SpecValues: calls of assignChipValues *)

MaxN == 12

BlindValues == {1, 2, 4, 5000, 10000, 20000, 50000, 100000, 200000, 250000,
                300000, 500000}

IdleSettle ==
    /\ players = <<>>
    /\ summaries = <<>>
    /\ debtors = <<>>
    /\ creditors = <<>>
    /\ i = 0
    /\ j = 0
    /\ transactions = <<>>
    /\ result = Null
    /\ nextId = 1

InitValues ==
    /\ n \in 0..MaxN
    /\ smallBlind \in BlindValues
    /\ bigBlind \in BlindValues
    /\ smallBlind < bigBlind
    /\ chips = <<>>
    /\ buyIn = 0
    /\ chipValues = <<>>
    /\ combinations = <<>>
    /\ calculated = FALSE
    /\ IdleSettle
    /\ pc = "call"

CallAssignChipValues ==
    /\ pc = "call"
    /\ chipValues' = assignChipValues(n, smallBlind, bigBlind)
    /\ pc' = "done"
    /\ UNCHANGED <<n, chips, buyIn, smallBlind, bigBlind, combinations, calculated>>
    /\ UNCHANGED settleVars

NextValues == CallAssignChipValues

SpecValues == InitValues /\ [][NextValues]_vars

-----------------------------------------------------------------------------
(* calculateSettlement *)

\* A name is a sequence of characters; ' ' is the whitespace character.
RECURSIVE TrimStart(_)
TrimStart(s) == IF s # <<>> /\ s[1] = " " THEN TrimStart(Tail(s)) ELSE s

RECURSIVE TrimEnd(_)
TrimEnd(s) ==
    IF s # <<>> /\ s[Len(s)] = " " THEN TrimEnd(SubSeq(s, 1, Len(s) - 1)) ELSE s

\* String.prototype.trim
Trim(s) == TrimEnd(TrimStart(s))

DefaultName == <<"P", "l", "a", "y", "e", "r">>

\* summarize counting the first buy-in only (re-buys ignored)
summarizeFirstBuyIn(p) ==
    LET totalBuyIn == round2(p.buyIns[1])
    IN  [name |-> IF Trim(p.name) # <<>> THEN Trim(p.name) ELSE DefaultName,
         totalBuyIn |-> totalBuyIn,
         finalBalance |-> p.finalBalance,
         net |-> round2(p.finalBalance - totalBuyIn)]

\* players.map(p => ({ name, totalBuyIn, finalBalance, net }))
summarize(p) ==
    LET totalBuyIn == round2(SumSeq(p.buyIns))
    IN  [name |-> IF Trim(p.name) # <<>> THEN Trim(p.name) ELSE DefaultName,
         totalBuyIn |-> totalBuyIn,
         finalBalance |-> p.finalBalance,
         net |-> round2(p.finalBalance - totalBuyIn)]

toSummaries(ps) == [k \in DOMAIN ps |-> summarize(ps[k])]

\* insert e into the descending sequence s after every entry of amount >= its own
RECURSIVE InsertDesc(_, _)
InsertDesc(s, e) ==
    IF s = <<>> THEN <<e>>
    ELSE IF s[1].amount >= e.amount THEN <<s[1]>> \o InsertDesc(Tail(s), e)
    ELSE <<e>> \o s

\* Array.prototype.sort((a, b) => b.amount - a.amount): stable, largest first
RECURSIVE SortDesc(_)
SortDesc(s) ==
    IF s = <<>> THEN <<>>
    ELSE InsertDesc(SortDesc(SubSeq(s, 1, Len(s) - 1)), s[Len(s)])

IsDebtor(p) == p.net < -(Cent \div 2)
IsCreditor(p) == p.net > (Cent \div 2)

\* toDebtors leaving out the players labelled by default
toDebtorsNamed(sums) ==
    LET owing == SelectSeq(sums, LAMBDA p : IsDebtor(p) /\ p.name # DefaultName)
    IN  SortDesc([k \in DOMAIN owing |-> [name |-> owing[k].name, amount |-> -owing[k].net]])

toDebtors(sums) ==
    LET owing == SelectSeq(sums, IsDebtor)
    IN  SortDesc([k \in DOMAIN owing |-> [name |-> owing[k].name, amount |-> -owing[k].net]])

\* toCreditors reading finalBalance where the code reads net
toCreditorsByBalance(sums) ==
    LET owed == SelectSeq(sums, LAMBDA p : p.finalBalance > (Cent \div 2))
    IN  SortDesc([k \in DOMAIN owed |->
                    [name |-> owed[k].name, amount |-> owed[k].finalBalance]])

toCreditors(sums) ==
    LET owed == SelectSeq(sums, IsCreditor)
    IN  SortDesc([k \in DOMAIN owed |-> [name |-> owed[k].name, amount |-> owed[k].net]])

\* transferAmount paying the debtor's whole remainder (Math.min dropped)
transferAmountDebtor(d, c) == round2(d.amount)

\* transferAmount with Math.max in place of Math.min
transferAmountMax(d, c) == round2(IF d.amount >= c.amount THEN d.amount ELSE c.amount)

\* transferAmount paying half of the smaller remainder
transferAmountHalf(d, c) ==
    round2((IF d.amount <= c.amount THEN d.amount ELSE c.amount) \div 2)

\* round2(Math.min(debtors[i].amount, creditors[j].amount))
transferAmount(d, c) == round2(IF d.amount <= c.amount THEN d.amount ELSE c.amount)

\* the transaction pushed with from and to exchanged
makeTransactionSwapped(d, c, amount) == [from |-> c.name, to |-> d.name, amount |-> amount]

\* { from: debtors[i].name, to: creditors[j].name, amount }
makeTransaction(d, c, amount) == [from |-> d.name, to |-> c.name, amount |-> amount]

\* the state of the matching loop when it starts
settleStart(ps) ==
    LET sums == toSummaries(ps)
    IN  [debtors |-> toDebtors(sums), creditors |-> toCreditors(sums),
         i |-> 0, j |-> 0, transactions |-> <<>>]

loopCondition(st) == st.i < Len(st.debtors) /\ st.j < Len(st.creditors)

\* settleStep moving on from both entries whatever is left of them
settleStepAdvancingBoth(st) ==
    LET d == st.debtors[st.i + 1]
        c == st.creditors[st.j + 1]
        amount == transferAmount(d, c)
        dLeft == round2(d.amount - amount)
        cLeft == round2(c.amount - amount)
    IN  [debtors |-> [st.debtors EXCEPT ![st.i + 1].amount = dLeft],
         creditors |-> [st.creditors EXCEPT ![st.j + 1].amount = cLeft],
         i |-> st.i + 1,
         j |-> st.j + 1,
         transactions |-> IF amount > Cent \div 2
                          THEN Append(st.transactions, makeTransaction(d, c, amount))
                          ELSE st.transactions]

\* one iteration of the while loop (i and j are 0-based, as in the code)
settleStep(st) ==
    LET d == st.debtors[st.i + 1]
        c == st.creditors[st.j + 1]
        amount == transferAmount(d, c)
        dLeft == round2(d.amount - amount)
        cLeft == round2(c.amount - amount)
    IN  [debtors |-> [st.debtors EXCEPT ![st.i + 1].amount = dLeft],
         creditors |-> [st.creditors EXCEPT ![st.j + 1].amount = cLeft],
         i |-> IF dLeft < Cent \div 2 THEN st.i + 1 ELSE st.i,
         j |-> IF cLeft < Cent \div 2 THEN st.j + 1 ELSE st.j,
         transactions |-> IF amount > Cent \div 2
                          THEN Append(st.transactions, makeTransaction(d, c, amount))
                          ELSE st.transactions]

\* the while loop run to its end
RECURSIVE settleLoop(_)
settleLoop(st) == IF loopCondition(st) THEN settleLoop(settleStep(st)) ELSE st

\* the summaries with the net of every debtor and creditor replaced by what
\* the loop left of it (as if debtors and creditors were the summaries' own
\* objects)
settlementResultRemainders(st, sums) ==
    LET leftOf(list, name, net) ==
            IF \E k \in DOMAIN list : list[k].name = name
            THEN list[CHOOSE k \in DOMAIN list : list[k].name = name].amount
            ELSE net
    IN  [transactions |-> st.transactions,
         summaries |->
            [k \in DOMAIN sums |->
                [sums[k] EXCEPT !.net =
                    IF IsDebtor(sums[k]) THEN -leftOf(st.debtors, sums[k].name, -sums[k].net)
                    ELSE IF IsCreditor(sums[k]) THEN leftOf(st.creditors, sums[k].name, sums[k].net)
                    ELSE sums[k].net]]]

\* return { transactions, summaries }
settlementResult(st, sums) == [transactions |-> st.transactions, summaries |-> sums]

calculateSettlement(ps) == settlementResult(settleLoop(settleStart(ps)), toSummaries(ps))

-----------------------------------------------------------------------------
(* Specification SpecSettle: calls of calculateSettlement, the matching loop *)
(* one iteration at a time                                                  *)

MaxPlayers == 5

\* The players a list is drawn from: nets +4, +3, -3, -2, 0, +2 dollars; blank,
\* padded and repeated names; a re-buy; amounts below one cent.
PlayerChoices ==
    { [name |-> <<"A">>, buyIns |-> <<20 * Dollar>>, finalBalance |-> 24 * Dollar],
      [name |-> <<"B">>, buyIns |-> <<20 * Dollar>>, finalBalance |-> 23 * Dollar],
      [name |-> <<>>, buyIns |-> <<10 * Dollar, 10 * Dollar>>, finalBalance |-> 17 * Dollar],
      [name |-> <<" ", "C", " ">>, buyIns |-> <<10 * Dollar + 4000, 10 * Dollar - 1000>>,
       finalBalance |-> 18 * Dollar + 4000],
      [name |-> <<" ">>, buyIns |-> <<20 * Dollar>>, finalBalance |-> 20 * Dollar + 4000],
      [name |-> <<"A">>, buyIns |-> <<20 * Dollar>>, finalBalance |-> 22 * Dollar] }

\* makePlayer gives every player its own id
withIds(choice) ==
    [k \in DOMAIN choice |->
        [id |-> k, name |-> choice[k].name, buyIns |-> choice[k].buyIns,
         finalBalance |-> choice[k].finalBalance]]

IdleChips ==
    /\ n = 0
    /\ chips = <<>>
    /\ buyIn = 0
    /\ smallBlind = 0
    /\ bigBlind = 0
    /\ chipValues = <<>>
    /\ combinations = <<>>
    /\ calculated = FALSE

InitSettle ==
    /\ \E len \in 0..MaxPlayers :
          \E choice \in [1..len -> PlayerChoices] : players = withIds(choice)
    /\ summaries = <<>>
    /\ debtors = <<>>
    /\ creditors = <<>>
    /\ i = 0
    /\ j = 0
    /\ transactions = <<>>
    /\ result = Null
    /\ nextId = Len(players) + 1
    /\ IdleChips
    /\ pc = "call"

loopState == [debtors |-> debtors, creditors |-> creditors, i |-> i, j |-> j,
              transactions |-> transactions]

\* lines 227-246: summaries, debtors, creditors, the sorts, i = j = 0; the
\* function is called on the player list, and may be called on it again once
\* it has returned
SettleCall ==
    /\ pc \in {"call", "done"}
    /\ summaries' = toSummaries(players)
    /\ LET st == settleStart(players)
       IN  /\ debtors' = st.debtors
           /\ creditors' = st.creditors
           /\ i' = st.i
           /\ j' = st.j
           /\ transactions' = st.transactions
    /\ pc' = "loop"
    /\ UNCHANGED <<players, result, nextId>>
    /\ UNCHANGED chipVars

\* lines 248-257: one iteration of the while loop
SettleStep ==
    /\ pc = "loop"
    /\ loopCondition(loopState)
    /\ LET st == settleStep(loopState)
       IN  /\ debtors' = st.debtors
           /\ creditors' = st.creditors
           /\ i' = st.i
           /\ j' = st.j
           /\ transactions' = st.transactions
    /\ UNCHANGED <<players, summaries, result, nextId, pc>>
    /\ UNCHANGED chipVars

\* line 259: the loop condition is false, the function returns; the caller
\* keeps what it returned (setResult)
SettleReturn ==
    /\ pc = "loop"
    /\ ~loopCondition(loopState)
    /\ result' = Some(settlementResult(loopState, summaries))
    /\ pc' = "done"
    /\ UNCHANGED <<players, summaries, debtors, creditors, i, j, transactions, nextId>>
    /\ UNCHANGED chipVars

NextSettle == SettleCall \/ SettleStep \/ SettleReturn

SpecSettle == InitSettle /\ [][NextSettle]_vars

\* the longest player list of the runs checked for termination
MaxPlayersFair == 4

InitSettleFair == InitSettle /\ Len(players) <= MaxPlayersFair

\* A call runs to completion: the function is synchronous, so an iteration
\* that can run does run, and so does the return.
SpecSettleFair ==
    /\ InitSettleFair
    /\ [][NextSettle]_vars
    /\ WF_vars(SettleStep)
    /\ WF_vars(SettleReturn)

-----------------------------------------------------------------------------
(* Specification SpecCombos: calls of calculateCombinations *)

MaxChips == 6

DEFAULT_CHIPS == <<1, 5, 25, 100, 500, 1000>>

\* the k-th denomination drawn: the default set, then 2000, 3000, ...
Denomination(k) ==
    IF k <= Len(DEFAULT_CHIPS) THEN DEFAULT_CHIPS[k] ELSE 1000 * (k - Len(DEFAULT_CHIPS) + 1)

\* The chip lists drawn, of every length up to MaxChips: the denominations in
\* ascending order rotated by r places (any order), and in descending order
\* with the entry at position d replaced by the largest one (a repeated value).
Rotated(len, r) == [k \in 1..len |-> Denomination(((k + r - 1) % len) + 1)]
Repeated(len, d) ==
    [k \in 1..len |-> IF k = d THEN Denomination(len) ELSE Denomination(len + 1 - k)]

ChipLists ==
    {<<>>}
    \cup {Rotated(len, r) : len \in 1..MaxChips, r \in 0..(MaxChips - 1)}
    \cup {Repeated(len, d) : len \in 1..MaxChips, d \in 1..MaxChips}

BuyInChoices == {-20 * Dollar, 0, Dollar, 5 * Dollar, 20 * Dollar}
SmallBlindChoices == {0, 1, 5000, 5 * Cent, 10 * Cent, 25 * Cent}
BigBlindChoices == {0, 2, Cent, 10 * Cent, 20 * Cent, 30 * Cent, 50 * Cent}

InitCombos ==
    /\ chips \in ChipLists
    /\ buyIn \in BuyInChoices
    /\ smallBlind \in SmallBlindChoices
    /\ bigBlind \in BigBlindChoices
    /\ n = Len(chips)
    /\ chipValues = <<>>
    /\ combinations = <<>>
    /\ calculated = FALSE
    /\ IdleSettle
    /\ pc = "call"

CallCalculateCombinations ==
    /\ pc = "call"
    /\ combinations' = calculateCombinations(chips, buyIn, smallBlind, bigBlind)
    /\ pc' = "done"
    /\ UNCHANGED <<n, chips, buyIn, smallBlind, bigBlind, chipValues, calculated>>
    /\ UNCHANGED settleVars

NextCombos == CallCalculateCombinations

SpecCombos == InitCombos /\ [][NextCombos]_vars

-----------------------------------------------------------------------------
(* The components App and Settlement: their state and handlers *)

\* A text (the value of an input field) is a sequence of characters.
DigitChars == <<"0", "1", "2", "3", "4", "5", "6", "7", "8", "9">>
IsDigit(c) == \E d \in DOMAIN DigitChars : DigitChars[d] = c
DigitValue(c) == (CHOOSE d \in DOMAIN DigitChars : DigitChars[d] = c) - 1

\* the longest prefix of s made of digits
RECURSIVE leadingDigits(_)
leadingDigits(s) ==
    IF s # <<>> /\ IsDigit(s[1]) THEN <<s[1]>> \o leadingDigits(Tail(s)) ELSE <<>>

\* the number a sequence of digits writes, after the digits read so far
RECURSIVE digitsValue(_, _)
digitsValue(ds, acc) ==
    IF ds = <<>> THEN acc ELSE digitsValue(Tail(ds), 10 * acc + DigitValue(ds[1]))

\* the digits after the decimal point, in millionths (six places are kept)
fractionValue(ds) ==
    LET kept == SubSeq(ds, 1, IF Len(ds) < 6 THEN Len(ds) ELSE 6)
        Pow10[k \in 0..6] == IF k = 0 THEN 1 ELSE 10 * Pow10[k - 1]
    IN  digitsValue(kept, 0) * Pow10[6 - Len(kept)]

\* parseFloat: leading whitespace skipped, an optional sign, digits, an
\* optional point and digits; what follows is ignored; NaN when there is no
\* digit.  The result is in millionths.  (The texts drawn hold no exponent.)
parseFloat(text) ==
    LET s == TrimStart(text)
        signed == s # <<>> /\ s[1] \in {"-", "+"}
        body == IF signed THEN Tail(s) ELSE s
        whole == leadingDigits(body)
        rest == SubSeq(body, Len(whole) + 1, Len(body))
        frac == IF rest # <<>> /\ rest[1] = "." THEN leadingDigits(Tail(rest)) ELSE <<>>
        magnitude == digitsValue(whole, 0) * Dollar + fractionValue(frac)
    IN  IF whole = <<>> /\ frac = <<>> THEN NaN
        ELSE IF s[1] = "-" THEN -magnitude ELSE magnitude

isNaN(x) == x = NaN

\* String(DEFAULT_BUY_IN), String(DEFAULT_SB), String(DEFAULT_BB)
DEFAULT_BUY_IN == <<"2", "0">>
DEFAULT_SB == <<"0", ".", "1">>
DEFAULT_BB == <<"0", ".", "2">>

\* useState(DEFAULT_CHIPS): the denominations as numbers in millionths
defaultChips == [k \in DOMAIN DEFAULT_CHIPS |-> DEFAULT_CHIPS[k] * Dollar]

\* makePlayer() when nextId is id
makePlayer(id) == [id |-> id, name |-> <<>>, buyIns |-> <<0>>, finalBalance |-> 0]

\* canCalculate of Settlement
canCalculate ==
    /\ Len(players) >= 2
    /\ \A k \in DOMAIN players : Len(Trim(players[k].name)) > 0

\* isValid of App
isValid ==
    /\ Len(chips) > 0
    /\ ~isNaN(parseFloat(buyIn)) /\ parseFloat(buyIn) > 0
    /\ ~isNaN(parseFloat(smallBlind)) /\ parseFloat(smallBlind) > 0
    /\ ~isNaN(parseFloat(bigBlind)) /\ parseFloat(bigBlind) > parseFloat(smallBlind)

-----------------------------------------------------------------------------
(* Specification SpecUI: the handlers of App and of Settlement.  The two     *)
(* components share no state; pc names the one the user works with.          *)

\* the texts typed into the chip field, the blind fields and the buy-in field
ChipInputs ==
    { <<>>, <<"a", "b", "c">>, <<"0">>, <<"-", "5">>, <<" ", "2", "5", " ">>,
      <<"2">>, <<"2", ".", "0">> }
SmallBlindTexts == { DEFAULT_SB, <<"0", ".", "2", "5">> }
BigBlindTexts == { DEFAULT_BB, <<"0", ".", "5">> }
BuyInTexts == { DEFAULT_BUY_IN, <<>> }

\* what a player row is edited to: a winner, a loser, and a player of blank
\* name with a re-buy
PlayerEdits ==
    { [name |-> <<"A">>, buyIns |-> <<20 * Dollar>>, finalBalance |-> 24 * Dollar],
      [name |-> <<"B">>, buyIns |-> <<20 * Dollar>>, finalBalance |-> 16 * Dollar],
      [name |-> <<" ">>, buyIns |-> <<10 * Dollar, 10 * Dollar>>,
       finalBalance |-> 20 * Dollar] }

IdleLoop ==
    /\ summaries = <<>>
    /\ debtors = <<>>
    /\ creditors = <<>>
    /\ i = 0
    /\ j = 0
    /\ transactions = <<>>

loopVars == <<summaries, debtors, creditors, i, j, transactions>>

InitUI ==
    /\ chips = defaultChips
    /\ buyIn = DEFAULT_BUY_IN
    /\ smallBlind = DEFAULT_SB
    /\ bigBlind = DEFAULT_BB
    /\ combinations = <<>>
    /\ chipValues = <<>>
    /\ calculated = FALSE
    /\ n = 0
    /\ players = <<makePlayer(1), makePlayer(2)>>
    /\ nextId = 3
    /\ result = Null
    /\ IdleLoop
    /\ pc \in {"App", "Settlement"}

\* addChip without the test !chips.includes(val)
addChipAlreadyPresent ==
    /\ pc = "App"
    /\ \E chipInput \in ChipInputs :
          LET val == parseFloat(Trim(chipInput))
          IN  IF ~isNaN(val) /\ val > 0
              THEN /\ chips' = SortAsc(Append(chips, val))
                   /\ calculated' = FALSE
              ELSE UNCHANGED <<chips, calculated>>
    /\ UNCHANGED <<n, buyIn, smallBlind, bigBlind, chipValues, combinations, pc>>
    /\ UNCHANGED settleVars

\* App: addChip, for the text in the chip field
addChip ==
    /\ pc = "App"
    /\ \E chipInput \in ChipInputs :
          LET val == parseFloat(Trim(chipInput))
          IN  IF ~isNaN(val) /\ val > 0 /\ ~Includes(chips, val)
              THEN /\ chips' = SortAsc(Append(chips, val))
                   /\ calculated' = FALSE
              ELSE UNCHANGED <<chips, calculated>>
    /\ UNCHANGED <<n, buyIn, smallBlind, bigBlind, chipValues, combinations, pc>>
    /\ UNCHANGED settleVars

\* removeChip without setCalculated(false)
removeChipKeepingCalculated ==
    /\ pc = "App"
    /\ \E k \in DOMAIN chips :
          chips' = SelectSeq(chips, LAMBDA c : c # chips[k])
    /\ UNCHANGED <<n, buyIn, smallBlind, bigBlind, chipValues, combinations,
                   calculated, pc>>
    /\ UNCHANGED settleVars

\* App: removeChip(chip), from the button of a chip shown
removeChip ==
    /\ pc = "App"
    /\ \E k \in DOMAIN chips :
          chips' = SelectSeq(chips, LAMBDA c : c # chips[k])
    /\ calculated' = FALSE
    /\ UNCHANGED <<n, buyIn, smallBlind, bigBlind, chipValues, combinations, pc>>
    /\ UNCHANGED settleVars

\* App: onChange of the small blind field
setSmallBlind ==
    /\ pc = "App"
    /\ smallBlind' \in SmallBlindTexts
    /\ calculated' = FALSE
    /\ UNCHANGED <<n, chips, buyIn, bigBlind, chipValues, combinations, pc>>
    /\ UNCHANGED settleVars

\* App: onChange of the big blind field
setBigBlind ==
    /\ pc = "App"
    /\ bigBlind' \in BigBlindTexts
    /\ calculated' = FALSE
    /\ UNCHANGED <<n, chips, buyIn, smallBlind, chipValues, combinations, pc>>
    /\ UNCHANGED settleVars

\* App: onChange of the buy-in field
setBuyIn ==
    /\ pc = "App"
    /\ buyIn' \in BuyInTexts
    /\ calculated' = FALSE
    /\ UNCHANGED <<n, chips, smallBlind, bigBlind, chipValues, combinations, pc>>
    /\ UNCHANGED settleVars

\* App: handleCalculate, from the button (disabled unless isValid)
handleCalculate ==
    /\ pc = "App"
    /\ isValid
    /\ LET buyInNum == parseFloat(buyIn)
           sbNum == parseFloat(smallBlind)
           bbNum == parseFloat(bigBlind)
       IN  IF \/ isNaN(buyInNum) \/ buyInNum <= 0
              \/ isNaN(sbNum) \/ sbNum <= 0
              \/ isNaN(bbNum) \/ bbNum <= sbNum
              \/ Len(chips) = 0
           THEN UNCHANGED <<n, chipValues, combinations, calculated>>
           ELSE /\ n' = Len(SortAsc(chips))
                /\ chipValues' = assignChipValues(n', sbNum, bbNum)
                /\ combinations' = calculateCombinations(chips, buyInNum, sbNum, bbNum)
                /\ calculated' = TRUE
    /\ UNCHANGED <<chips, buyIn, smallBlind, bigBlind, pc>>
    /\ UNCHANGED settleVars

\* Settlement: updatePlayer(id, updated), from the row of the player id; the
\* row keeps the id of the player it edits
updatePlayer ==
    /\ pc = "Settlement"
    /\ \E k \in DOMAIN players : \E edit \in PlayerEdits :
          LET id == players[k].id
              updated == [id |-> id, name |-> edit.name, buyIns |-> edit.buyIns,
                          finalBalance |-> edit.finalBalance]
          IN  players' = [m \in DOMAIN players |->
                             IF players[m].id = id THEN updated ELSE players[m]]
    /\ result' = Null
    /\ UNCHANGED <<nextId, pc>>
    /\ UNCHANGED loopVars
    /\ UNCHANGED chipVars

\* Settlement: addPlayer; at most MaxPlayers players are ever made
addPlayer ==
    /\ pc = "Settlement"
    /\ nextId <= MaxPlayers
    /\ players' = Append(players, makePlayer(nextId))
    /\ nextId' = nextId + 1
    /\ result' = Null
    /\ UNCHANGED pc
    /\ UNCHANGED loopVars
    /\ UNCHANGED chipVars

\* Settlement: removePlayer(id), from the button a row shows when there are
\* more than two players
removePlayer ==
    /\ pc = "Settlement"
    /\ Len(players) > 2
    /\ \E k \in DOMAIN players :
          players' = SelectSeq(players, LAMBDA p : p.id # players[k].id)
    /\ result' = Null
    /\ UNCHANGED <<nextId, pc>>
    /\ UNCHANGED loopVars
    /\ UNCHANGED chipVars

\* Settlement: handleCalculate, from the button (disabled unless canCalculate)
handleCalculateSettlement ==
    /\ pc = "Settlement"
    /\ canCalculate
    /\ result' = Some(calculateSettlement(players))
    /\ UNCHANGED <<players, nextId, pc>>
    /\ UNCHANGED loopVars
    /\ UNCHANGED chipVars

NextUI ==
    \/ addChip
    \/ removeChip
    \/ setSmallBlind
    \/ setBigBlind
    \/ setBuyIn
    \/ handleCalculate
    \/ updatePlayer
    \/ addPlayer
    \/ removePlayer
    \/ handleCalculateSettlement

SpecUI == InitUI /\ [][NextUI]_vars

-----------------------------------------------------------------------------
(* Claims about assignChipValues, under SpecValues *)

ValuesReturned == pc = "done" /\ n >= 2

\* C7: for every n >= 2 and blinds 0 < smallBlind < bigBlind, assignChipValues
\* returns n strictly positive values in strictly increasing order.
C7_StrictlyIncreasingPositive ==
    ValuesReturned =>
        /\ Len(chipValues) = n
        /\ \A k \in 1..n : chipValues[k] > 0
        /\ \A k \in 1..(n - 1) : chipValues[k] < chipValues[k + 1]

\* The multiples of the small blind rounded to cents that exceed prev and are
\* not among the values already assigned.
RoundedMultiplesAbove(sb, prev, used) ==
    {v \in {round2(NICE_MULTIPLIERS[m] * sb) : m \in DOMAIN NICE_MULTIPLIERS} :
        v > prev /\ v \notin {used[k] : k \in DOMAIN used}}

-----------------------------------------------------------------------------
(* Claims about calculateSettlement, under SpecSettle *)

SettlementReturned == pc = "done"

SumOfAmounts(txs) == SumSeq([k \in DOMAIN txs |-> txs[k].amount])
SumOfPositiveNets(sums) ==
    SumSeq([k \in DOMAIN sums |-> IF sums[k].net > 0 THEN sums[k].net ELSE 0])
SumOfNegativeNets(sums) ==
    SumSeq([k \in DOMAIN sums |-> IF sums[k].net < 0 THEN sums[k].net ELSE 0])

NetsSumToZero(sums) == SumOfPositiveNets(sums) + SumOfNegativeNets(sums) = 0

\* what the transactions make the players of one name pay and receive
PaidBy(name, txs) ==
    SumSeq([k \in DOMAIN txs |-> IF txs[k].from = name THEN txs[k].amount ELSE 0])
ReceivedBy(name, txs) ==
    SumSeq([k \in DOMAIN txs |-> IF txs[k].to = name THEN txs[k].amount ELSE 0])

\* what the players of one name owe and are owed, from their nets
OwedBy(name, sums) ==
    SumSeq([k \in DOMAIN sums |->
               IF sums[k].name = name /\ sums[k].net < 0 THEN -sums[k].net ELSE 0])
OwedTo(name, sums) ==
    SumSeq([k \in DOMAIN sums |->
               IF sums[k].name = name /\ sums[k].net > 0 THEN sums[k].net ELSE 0])

TotalsMatch(sums, txs) ==
    /\ Abs(SumOfAmounts(txs) - SumOfPositiveNets(sums)) <= Cent
    /\ SumOfAmounts(txs) = Abs(SumOfNegativeNets(sums))

BalancesZeroed(sums, txs) ==
    \A k \in DOMAIN sums :
        /\ sums[k].net < 0 => PaidBy(sums[k].name, txs) = OwedBy(sums[k].name, sums)
        /\ sums[k].net > 0 => ReceivedBy(sums[k].name, txs) = OwedTo(sums[k].name, sums)

\* C2 as stated: for every player list (of at least one player) the transaction amounts sum to the sum
\* of the positive nets (within 1 cent) and to the absolute sum of the
\* negative nets.
C2_TotalsMatchAlways ==
    (SettlementReturned /\ Len(players) >= 1) => TotalsMatch(summaries, transactions)

\* C2 amended: the same for every player list whose nets sum to zero.
C2_TotalsMatchWhenBalanced ==
    (SettlementReturned /\ NetsSumToZero(summaries))
        => TotalsMatch(summaries, transactions)

\* C2 witness: a balanced list settled with three or more payments.
C2_Witness ==
    /\ SettlementReturned
    /\ NetsSumToZero(summaries)
    /\ Len(transactions) >= 3
    /\ SumOfAmounts(transactions) = SumOfPositiveNets(summaries)

\* C3 as stated: for every player list (of at least one player) the transactions zero every balance:
\* each player with net < 0 pays -net in total, each player with net > 0
\* receives net in total (players are told apart by name, as transactions are).
C3_BalancesZeroedAlways ==
    (SettlementReturned /\ Len(players) >= 1) => BalancesZeroed(summaries, transactions)

\* C3 amended: the same for every player list whose nets sum to zero.
C3_BalancesZeroedWhenBalanced ==
    (SettlementReturned /\ NetsSumToZero(summaries))
        => BalancesZeroed(summaries, transactions)

\* C3 witness: a balanced list in which one debtor pays two creditors.
C3_Witness ==
    /\ SettlementReturned
    /\ NetsSumToZero(summaries)
    /\ \E a, b \in DOMAIN transactions :
          /\ transactions[a].from = transactions[b].from
          /\ transactions[a].to # transactions[b].to
    /\ BalancesZeroed(summaries, transactions)

\* the players at the positions in T, in list order
RECURSIVE SubList(_, _, _)
SubList(ps, T, k) ==
    IF k > Len(ps) THEN <<>>
    ELSE (IF k \in T THEN <<ps[k]>> ELSE <<>>) \o SubList(ps, T, k + 1)

\* C4: for every player list whose nets sum to zero, no set of debtor-to-
\* creditor payments that zeroes every balance has fewer payments than the
\* returned list.  Stated for the payment sets made by settling two groups of
\* players separately, each group with nets summing to zero: settling the
\* groups apart zeroes every balance, so it may not take fewer payments.
C4_MinimumTransactions ==
    (SettlementReturned /\ NetsSumToZero(summaries)) =>
        \A T \in SUBSET (1..Len(players)) :
            LET inT == SubList(players, T, 1)
                rest == SubList(players, (1..Len(players)) \ T, 1)
            IN  (NetsSumToZero(toSummaries(inT)) /\ NetsSumToZero(toSummaries(rest)))
                    => Len(calculateSettlement(inT).transactions)
                         + Len(calculateSettlement(rest).transactions)
                       >= Len(transactions)

NumDebtors(sums) == Cardinality({k \in DOMAIN sums : sums[k].net < -(Cent \div 2)})
NumCreditors(sums) == Cardinality({k \in DOMAIN sums : sums[k].net > (Cent \div 2)})

\* C5 as stated: for every player list (of at least one player) the number of transactions is at most
\* debtors + creditors - 1.
C5_AtMostDebtorsPlusCreditorsMinusOne ==
    (SettlementReturned /\ Len(players) >= 1) =>
        Len(transactions) <= NumDebtors(summaries) + NumCreditors(summaries) - 1

\* C5 amended: at most debtors + creditors - 1 when there is a debtor or a
\* creditor, and no transaction when there is neither.
C5_AtMostBoundOrEmpty ==
    SettlementReturned =>
        IF NumDebtors(summaries) + NumCreditors(summaries) = 0
        THEN Len(transactions) = 0
        ELSE Len(transactions) <= NumDebtors(summaries) + NumCreditors(summaries) - 1

\* C5 witness: two or more debtors and creditors, and the bound is reached.
C5_Witness ==
    /\ SettlementReturned
    /\ NumDebtors(summaries) >= 2
    /\ NumCreditors(summaries) >= 2
    /\ Len(transactions) = NumDebtors(summaries) + NumCreditors(summaries) - 1

\* the net of a player, from the player's own fields
NetOf(p) == round2(p.finalBalance - round2(SumSeq(p.buyIns)))

\* C12: calculateSettlement leaves its player list unchanged; a call on the
\* list that an earlier call was made on returns what the earlier call
\* returned (summaries and transactions, in order); the nets in the returned
\* summaries are the players' original nets, not what the loop left of them.
C12_SameResultOnSameList ==
    [][/\ players' = players
       /\ (pc = "loop" /\ pc' = "done") =>
             /\ result' # Null
             /\ result # Null => result' = result
             /\ Len(result'[1].summaries) = Len(players)
             /\ \A k \in DOMAIN players :
                   result'[1].summaries[k].net = NetOf(players[k])]_vars

\* C12 witness: a second call on the same list is about to return the two or
\* more transactions the first call returned, every debtor's remainder being 0.
C12_Witness ==
    /\ pc = "loop"
    /\ ~loopCondition(loopState)
    /\ result # Null
    /\ Len(transactions) >= 2
    /\ result[1].transactions = transactions
    /\ result[1].summaries = summaries
    /\ debtors # <<>>
    /\ \A k \in DOMAIN debtors : debtors[k].amount = 0

\* one letter per position of a player list, none of them a blank
PositionLetters == <<"p", "q", "r", "s", "t", "u", "v", "w">>

\* the player list with the player at position k named by the k-th letter
NamedByPosition(ps) == [k \in DOMAIN ps |-> [ps[k] EXCEPT !.name = <<PositionLetters[k]>>]]

\* the position a letter names
PositionOf(name) == CHOOSE k \in DOMAIN PositionLetters : <<PositionLetters[k]>> = name

IsBlank(name) == \A k \in DOMAIN name : name[k] = " "

\* C13: a player whose name is blank or only whitespace is labelled 'Player'
\* in the summaries and in the transactions; names do not affect the
\* arithmetic: the list with every player renamed (here, by position) has the
\* same totalBuyIn and net at every position and the same sequence of
\* transaction amounts, each between the same two positions.
C13_NamesDoNotAffectArithmetic ==
    SettlementReturned =>
        LET other == calculateSettlement(NamedByPosition(players))
        IN  /\ \A k \in DOMAIN players :
                  IsBlank(players[k].name) => summaries[k].name = DefaultName
            /\ Len(other.summaries) = Len(summaries)
            /\ \A k \in DOMAIN summaries :
                  /\ other.summaries[k].totalBuyIn = summaries[k].totalBuyIn
                  /\ other.summaries[k].net = summaries[k].net
            /\ Len(other.transactions) = Len(transactions)
            /\ \A t \in DOMAIN transactions :
                  /\ other.transactions[t].amount = transactions[t].amount
                  /\ transactions[t].from
                       = summaries[PositionOf(other.transactions[t].from)].name
                  /\ transactions[t].to
                       = summaries[PositionOf(other.transactions[t].to)].name

\* C13 witness: a player with a blank name and one with a name of blanks only
\* are in the list, one pays as 'Player', and two players share a name.
C13_Witness ==
    /\ SettlementReturned
    /\ \E k \in DOMAIN players : players[k].name = <<>>
    /\ \E k \in DOMAIN players : players[k].name = <<" ">>
    /\ \E t \in DOMAIN transactions : transactions[t].from = DefaultName
    /\ \E a, b \in DOMAIN summaries : a # b /\ summaries[a].name = summaries[b].name
    /\ Len(transactions) >= 2

\* x is the amount exact rounded to cents: a whole number of cents at most
\* half a cent from exact
IsRoundedToCents(x, exact) == x % Cent = 0 /\ 2 * Abs(x - exact) <= Cent

\* C15: the returned summaries are one per input player, in input order, with
\* totalBuyIn the sum of the player's buyIns rounded to cents, finalBalance
\* copied, and net equal to finalBalance - totalBuyIn rounded to cents.
C15_OneSummaryPerPlayer ==
    SettlementReturned =>
        /\ Len(result[1].summaries) = Len(players)
        /\ \A k \in DOMAIN players :
              LET s == result[1].summaries[k]
                  p == players[k]
              IN  /\ s.name = (IF IsBlank(p.name) THEN DefaultName ELSE Trim(p.name))
                  /\ IsRoundedToCents(s.totalBuyIn, SumSeq(p.buyIns))
                  /\ s.finalBalance = p.finalBalance
                  /\ IsRoundedToCents(s.net, p.finalBalance - s.totalBuyIn)

\* C15 witness: three or more players, one with a re-buy whose buy-ins sum to
\* 20.003 (totalBuyIn 20.00) and whose net of -1.996 is returned as -2.00.
C15_Witness ==
    /\ SettlementReturned
    /\ Len(players) >= 3
    /\ \E k \in DOMAIN players :
          /\ Len(players[k].buyIns) = 2
          /\ SumSeq(players[k].buyIns) = 20 * Dollar + 3000
          /\ result[1].summaries[k].totalBuyIn = 20 * Dollar
          /\ players[k].finalBalance - 20 * Dollar = -(2 * Dollar) + 4000
          /\ result[1].summaries[k].net = -(2 * Dollar)

\* an iteration of the matching loop is about to run
AtLoopStep == pc = "loop" /\ loopCondition(loopState)

\* the entry at position k (1-based) has the largest remainder among the
\* entries of the list not yet settled (remainder of 0.005 or more)
LargestUnsettled(list, k) ==
    \A m \in DOMAIN list :
        list[m].amount >= Cent \div 2 => list[k].amount >= list[m].amount

\* C16: at every iteration of the matching loop the debtor matched has the
\* largest remaining amount among the debtors not yet settled, the creditor
\* matched has the largest remaining amount among the creditors not yet
\* settled, and the amount transferred (taken off both remainders) is the
\* smaller of the two remainders.
C16_MatchesLargestRemaining ==
    [][AtLoopStep =>
          /\ LargestUnsettled(debtors, i + 1)
          /\ LargestUnsettled(creditors, j + 1)
          /\ LET d == debtors[i + 1].amount
                 c == creditors[j + 1].amount
                 least == IF d <= c THEN d ELSE c
             IN  /\ debtors'[i + 1].amount = d - least
                 /\ creditors'[j + 1].amount = c - least]_vars

IsEven(p) == ~IsDebtor(p) /\ ~IsCreditor(p)

\* C17: every returned transaction has an amount above 0.005 that is a whole
\* number of cents, is paid by a player with net < -0.005 and is received by
\* a player with net > 0.005 (by name, and by position in the run on the list
\* renamed by position), so an even player takes part in none; when every
\* player is even there is no transaction and every net is 0.
C17_EvenPlayersExcluded ==
    SettlementReturned =>
        LET byPosition == calculateSettlement(NamedByPosition(players)).transactions
        IN  /\ \A t \in DOMAIN transactions :
                  /\ transactions[t].amount > Cent \div 2
                  /\ transactions[t].amount % Cent = 0
                  /\ \E k \in DOMAIN summaries :
                        summaries[k].name = transactions[t].from /\ IsDebtor(summaries[k])
                  /\ \E k \in DOMAIN summaries :
                        summaries[k].name = transactions[t].to /\ IsCreditor(summaries[k])
            /\ \A t \in DOMAIN byPosition :
                  /\ IsDebtor(summaries[PositionOf(byPosition[t].from)])
                  /\ IsCreditor(summaries[PositionOf(byPosition[t].to)])
            /\ (\A k \in DOMAIN summaries : IsEven(summaries[k])) =>
                  /\ transactions = <<>>
                  /\ \A k \in DOMAIN summaries : summaries[k].net = 0

\* C17 witness: two even players (cash-out 20.004 on a buy-in of 20, net 0)
\* sit among players who settle with two or more payments.
C17_Witness ==
    /\ SettlementReturned
    /\ \E a, b \in DOMAIN summaries :
          /\ a # b
          /\ IsEven(summaries[a]) /\ IsEven(summaries[b])
          /\ players[a].finalBalance # SumSeq(players[a].buyIns)
    /\ Len(transactions) >= 2

\* C19: the matching loop terminates for every player list: every iteration
\* advances the debtor index or the creditor index (or both) and moves
\* neither back, the indices never pass the ends of their lists, the loop
\* stops as soon as either list is exhausted, and every call returns.
C19_LoopTerminates ==
    /\ [][AtLoopStep =>
             /\ i' \in {i, i + 1}
             /\ j' \in {j, j + 1}
             /\ i' + j' > i + j]_vars
    /\ [](pc = "loop" => (i <= Len(debtors) /\ j <= Len(creditors)))
    /\ [][(pc = "loop" /\ ~loopCondition(loopState)) =>
             (pc' = "done" /\ i' = i /\ j' = j /\ transactions' = transactions)]_vars
    /\ [](pc = "done" => (i = Len(debtors) \/ j = Len(creditors)))
    /\ (pc = "loop") ~> (pc = "done")

\* C19 witness: the call has returned after three or more iterations, the
\* debtors exhausted while a creditor is still waiting.
C19_Witness ==
    /\ pc = "done"
    /\ i = Len(debtors)
    /\ j < Len(creditors)
    /\ i + j >= 3
    /\ Len(transactions) >= 3

\* the call is in its loop or has returned
InOrAfterLoop == pc \in {"loop", "done"}

\* the remainders of the entries of one name
RemainingOf(name, list) ==
    SumSeq([k \in DOMAIN list |-> IF list[k].name = name THEN list[k].amount ELSE 0])

\* every entry of list keeps its name and has a remainder >= 0 that is at
\* most its original amount; the entries of each name have their original
\* amounts less what the transactions so far record for the name
RemaindersAccounted(list, original, owed(_), moved(_)) ==
    /\ Len(list) = Len(original)
    /\ \A k \in DOMAIN list :
          /\ list[k].name = original[k].name
          /\ list[k].amount >= 0
          /\ list[k].amount <= original[k].amount
    /\ \A name \in {list[k].name : k \in DOMAIN list} :
          LET done == moved(name)
              due == owed(name)
          IN  /\ RemainingOf(name, list) = due - done
              /\ done <= due

\* C20: for every player list (balanced or not), at every step of the loop
\* each debtor's and each creditor's remainder is >= 0 and is the original
\* amount less the transactions recorded for it so far; no debtor pays more
\* than owed, no creditor receives more than owed.
C20_RemaindersNonNegative ==
    InOrAfterLoop =>
        LET originalDebtors == toDebtors(summaries)
            originalCreditors == toCreditors(summaries)
        IN  /\ RemaindersAccounted(debtors, originalDebtors,
                                   LAMBDA name : OwedBy(name, summaries),
                                   LAMBDA name : PaidBy(name, transactions))
            /\ RemaindersAccounted(creditors, originalCreditors,
                                   LAMBDA name : OwedTo(name, summaries),
                                   LAMBDA name : ReceivedBy(name, transactions))

\* C20 witness: in a list whose nets do not sum to zero the loop is under way,
\* two payments are recorded and a debtor has paid part of the debt.
C20_Witness ==
    /\ AtLoopStep
    /\ ~NetsSumToZero(summaries)
    /\ Len(transactions) >= 2
    /\ \E k \in DOMAIN debtors :
          /\ debtors[k].amount > 0
          /\ debtors[k].amount < toDebtors(summaries)[k].amount

\* every entry of the list has nothing left
FullySettled(list) == \A k \in DOMAIN list : list[k].amount = 0

\* the sum of the amounts of the entries of the list
TotalOf(list) == SumSeq([k \in DOMAIN list |-> list[k].amount])

\* the smaller of two amounts
Smaller(a, b) == IF a <= b THEN a ELSE b

\* C21: when calculateSettlement has returned, every debtor has paid the
\* whole debt or every creditor has received the whole credit, and the
\* amounts of the returned transactions sum to the minimum of the total owed
\* by the debtors and the total owed to the creditors.
C21_OneSideFullySettled ==
    pc = "done" =>
        /\ FullySettled(debtors) \/ FullySettled(creditors)
        /\ SumOfAmounts(result[1].transactions) =
              Smaller(TotalOf(toDebtors(summaries)), TotalOf(toCreditors(summaries)))

\* C21 witness: the call has returned on a list whose nets do not sum to
\* zero, after two or more payments from two or more debtors; the debtors
\* have paid in full and a creditor is still owed.
C21_Witness ==
    /\ pc = "done"
    /\ ~NetsSumToZero(summaries)
    /\ Len(debtors) >= 2
    /\ Len(result[1].transactions) >= 2
    /\ FullySettled(debtors)
    /\ ~FullySettled(creditors)

-----------------------------------------------------------------------------
(* Claims about the components, under SpecUI *)

\* C14: whenever Settlement holds a result, it is calculateSettlement of the
\* current player list; whenever App's calculated flag is true, combinations
\* is calculateCombinations of the current chips, buy-in and blinds.
C14_ResultsMatchCurrentInputs ==
    /\ result # Null => result[1] = calculateSettlement(players)
    /\ calculated =>
          combinations = calculateCombinations(chips, parseFloat(buyIn),
                                               parseFloat(smallBlind), parseFloat(bigBlind))

\* C14 witness: after edits, a calculation is shown for the edited inputs: in
\* App for a changed chip set and small blind, or in Settlement for three
\* players with a payment to make.
C14_Witness ==
    \/ /\ pc = "App"
       /\ calculated
       /\ combinations # <<>>
       /\ chips # defaultChips
       /\ smallBlind # DEFAULT_SB
    \/ /\ pc = "Settlement"
       /\ result # Null
       /\ Len(players) >= 3
       /\ result[1].transactions # <<>>


\* the list is strictly ascending, of positive numbers (hence distinct)
StrictlyAscendingPositive(list) ==
    /\ \A k \in DOMAIN list : ~isNaN(list[k]) /\ list[k] > 0
    /\ \A k \in 1..(Len(list) - 1) : list[k] < list[k + 1]

\* the text parses to a number that addChip may add to the list
AddableTo(list, chipInput) ==
    LET val == parseFloat(Trim(chipInput))
    IN  ~isNaN(val) /\ val > 0 /\ ~Includes(list, val)

\* the list with the value parsed from the text put at its place
WithChip(list, chipInput) == SortAsc(Append(list, parseFloat(Trim(chipInput))))

\* C22: from the default set, after any sequence of addChip and removeChip,
\* chips is a strictly ascending list of distinct positive numbers; chips
\* grows only by a numeric, positive value that was not in it, so addChip
\* with a non-numeric, non-positive or already-present value leaves chips
\* unchanged; a step that shortens chips removes one chip and keeps the rest.
C22_ChipsStrictlyAscending ==
    /\ [](pc = "App" => StrictlyAscendingPositive(chips))
    /\ [][(pc = "App" /\ Len(chips') > Len(chips)) =>
             \E chipInput \in ChipInputs :
                /\ AddableTo(chips, chipInput)
                /\ chips' = WithChip(chips, chipInput)]_vars
    /\ [][(pc = "App" /\ Len(chips') <= Len(chips)) =>
             \/ chips' = chips
             \/ \E k \in DOMAIN chips :
                   chips' = SubSeq(chips, 1, k - 1) \o SubSeq(chips, k + 1, Len(chips))]_vars

\* C22 witness: the chip 2 has been added to the default set, between 1 and
\* 5, and the chip 1000 removed; nothing is calculated since.
C22_Witness ==
    /\ pc = "App"
    /\ chips = <<1 * Dollar, 2 * Dollar, 5 * Dollar, 25 * Dollar,
                 100 * Dollar, 500 * Dollar>>
    /\ calculated = FALSE

-----------------------------------------------------------------------------
(* Claims about calculateCombinations, under SpecCombos *)

CombinationsReturned == pc = "done"

\* the preconditions of the chip allocation engine
ValidChipInput ==
    /\ Len(chips) > 0
    /\ buyIn > 0
    /\ 0 < smallBlind
    /\ smallBlind < bigBlind

\* C1: for valid input, each returned Combination has actualTotal equal to
\* targetTotal (the buy-in) to within 1 cent.
C1_ActualTotalMatchesTarget ==
    (CombinationsReturned /\ ValidChipInput) =>
        \A c \in DOMAIN combinations :
            /\ combinations[c].targetTotal = buyIn
            /\ IsFinite(combinations[c].actualTotal)
            /\ Abs(combinations[c].actualTotal - combinations[c].targetTotal) <= Cent

\* C6: for valid input, in every returned Combination every supplied
\* denomination has an allocation and every quantity is an integer >= 1.
C6_QuantitiesPositiveIntegers ==
    (CombinationsReturned /\ ValidChipInput) =>
        \A c \in DOMAIN combinations :
            LET allocs == combinations[c].allocations
            IN  /\ \A k \in DOMAIN chips :
                      \E a \in DOMAIN allocs : allocs[a].denomination = chips[k]
                /\ \A a \in DOMAIN allocs :
                      IsFinite(allocs[a].quantity) /\ allocs[a].quantity >= 1

\* C9: with a single denomination and valid input, one Combination is returned
\* with one allocation priced at the small blind, whose quantity is
\* buyIn / smallBlind and whose total is the buy-in exactly.
C9_SingleDenominationCoversBuyIn ==
    (CombinationsReturned /\ ValidChipInput /\ Len(chips) = 1) =>
        /\ Len(combinations) = 1
        /\ Len(combinations[1].allocations) = 1
        /\ combinations[1].allocations[1].valuePerChip = smallBlind
        /\ combinations[1].allocations[1].quantity * smallBlind = buyIn
        /\ combinations[1].allocations[1].totalValue = buyIn
        /\ combinations[1].actualTotal = buyIn

\* C10: for every chip list, the allocations of each returned Combination
\* carry exactly the distinct denominations supplied, in strictly ascending
\* order (so one entry per distinct denomination).
C10_DistinctDenominationsAscending ==
    CombinationsReturned =>
        \A c \in DOMAIN combinations :
            LET allocs == combinations[c].allocations
            IN  /\ {allocs[a].denomination : a \in DOMAIN allocs}
                      = {chips[k] : k \in DOMAIN chips}
                /\ \A a \in 1..(Len(allocs) - 1) :
                      allocs[a].denomination < allocs[a + 1].denomination

\* the inputs the chip allocation engine treats as invalid
InvalidChipInput ==
    \/ Len(chips) = 0
    \/ buyIn <= 0
    \/ smallBlind <= 0
    \/ bigBlind <= 0
    \/ bigBlind <= smallBlind

\* no all-positive quantity pattern exists for the call: solveGroup returns
\* null for the small-chip group or for the large-chip group
NoQuantityPattern ==
    LET num == Len(chips)
        values == assignChipValues(num, smallBlind, bigBlind)
        g1Size == (num + 1) \div 2
        g1Values == SubSeq(values, 1, g1Size)
        g2Values == SubSeq(values, g1Size + 1, num)
        half == buyIn \div 2
        N1 == jsRoundDiv(half, g1Values[1])
        N2 == jsRoundDiv(half, g2Values[1])
    IN  \/ solveGroup(g1Size, g1Values, half, g1TargetsOf(N1)[2]) = Null
        \/ /\ num > g1Size
           /\ solveGroup(num - g1Size, g2Values, half, g2TargetsOf(N2)[2]) = Null

\* C11: calculateCombinations returns a sequence for every input (it raises
\* no fault); it returns the empty sequence for every invalid input (no chip,
\* buyIn <= 0, a blind <= 0, bigBlind <= smallBlind) and for every input for
\* which no all-positive quantity pattern is found.
C11_EmptyOnInvalidOrInfeasible ==
    CombinationsReturned =>
        /\ DOMAIN combinations = 1..Len(combinations)
        /\ InvalidChipInput => combinations = <<>>
        /\ (~InvalidChipInput /\ NoQuantityPattern) => combinations = <<>>

\* the sum of the totalValue of the allocations at positions from..to
GroupSubtotal(allocs, from, to) ==
    IF from > to THEN 0 ELSE sumTotalValues(SubSeq(allocs, from, to))

\* C18: for valid input with two or more denominations, in every returned
\* Combination the first ceil(n/2) allocations (the small chips) total exactly
\* half the buy-in, and so do the remaining allocations (the large chips).
C18_EachGroupCoversHalf ==
    (CombinationsReturned /\ ValidChipInput /\ Len(chips) >= 2) =>
        \A c \in DOMAIN combinations :
            LET allocs == combinations[c].allocations
                g1Size == (Len(allocs) + 1) \div 2
            IN  /\ 2 * GroupSubtotal(allocs, 1, g1Size) = buyIn
                /\ 2 * GroupSubtotal(allocs, g1Size + 1, Len(allocs)) = buyIn

=============================================================================
